---- MODULE Spec2Model ----
(***************************************************************************)
(* The deployment engine of saus (src/src/deploy.ts): the deploy()         *)
(* function, its target declaration queue (context.addTarget / addTarget),  *)
(* the kill phase, the revert loop and the write of targets.yaml, together  *)
(* with the structural diff (diffObjects) that decides update vs. no-op.    *)
(***************************************************************************)
EXTENDS Integers, Sequences, FiniteSets, TLC

\* Bound: the number of declare() calls the deploy script makes.
MaxDecl == 2

\* Bound: the length of the arrays given to diffObjects.
MaxLen == 2

\* Bound: the number of loader invocations of withCache.
MaxLoads == 2

(***************************************************************************)
(* JavaScript values.  A value is a tagged record: a primitive (a string),  *)
(* a plain object (a function from keys to values), an array (a sequence)   *)
(* or undefined.                                                            *)
(***************************************************************************)
Prim(s) == [t |-> "prim", v |-> s]
Obj(f) == [t |-> "obj", v |-> f]
Arr(s) == [t |-> "arr", v |-> s]
Undefined == [t |-> "undef", v |-> "undefined"]
True == [t |-> "prim", v |-> "true"]
NoEntry == [t |-> "none", v |-> "none"]
EmptyObject == Obj(<< >>)

\* The enumerable keys of an array are its indices, as strings.
IndexKey == <<"0", "1", "2", "3">>

\* for (const key in value)
Keys(value) ==
  IF value.t = "obj" THEN DOMAIN value.v
  ELSE IF value.t = "arr" THEN {IndexKey[i] : i \in 1..Len(value.v)}
  ELSE {}

\* value[key]; a missing key reads as undefined
Get(value, key) ==
  IF key \notin Keys(value) THEN Undefined
  ELSE IF value.t = "obj" THEN value.v[key]
  ELSE value.v[CHOOSE i \in 1..Len(value.v) : IndexKey[i] = key]

\* Object.assign(target, source)
ObjectAssign(target, source) == Obj(source.v @@ target.v)

\* Mutant of StrictEquals: undefined is not equal to itself (as NaN is).
StrictEqualsDefined(a, b) == a.t = b.t /\ a.t = "prim" /\ a.v = b.v

\* a === b for the values that reach it: two primitives or undefined.
\* Two distinct object references are never strictly equal.
StrictEquals(a, b) == a.t = b.t /\ a.t \in {"prim", "undef"} /\ a.v = b.v

isPlainObject(value) == value.t \in {"obj", "arr"}

isArray(value) == value.t = "arr"

RECURSIVE diffObjects(_, _), equalArrays(_, _), diff(_, _)

\* The closure diff(key, oldValue, value) of diffObjects: whether it sets
\* `differs`, and what it assigns to changed[key] (NoEntry: nothing).
diff(oldValue, value) ==
  IF isPlainObject(oldValue) /\ isPlainObject(value)
  THEN LET d == diffObjects(oldValue, value)
       IN  [differs |-> d.differs, entry |-> Obj(d.changed)]
  ELSE IF isArray(oldValue) /\ isArray(value)
  THEN IF ~equalArrays(oldValue, value)
       THEN [differs |-> TRUE, entry |-> True]
       ELSE [differs |-> FALSE, entry |-> NoEntry]
  ELSE IF ~StrictEquals(oldValue, value)
  THEN [differs |-> TRUE, entry |-> True]
  ELSE [differs |-> FALSE, entry |-> NoEntry]

\* diffObjects(oldValues, values, changed): the returned `differs` and the
\* entries it adds to `changed`.  The first loop visits the keys of values,
\* the second the keys of oldValues that values lacks.
diffObjects(oldValues, values) ==
  LET keys == Keys(values) \cup (Keys(oldValues) \ Keys(values))
      r == [key \in keys |-> diff(Get(oldValues, key), Get(values, key))]
  IN  [differs |-> \E key \in keys : r[key].differs,
       changed |-> [key \in {k \in keys : r[k].entry.t # "none"} |-> r[key].entry]]

equalArrays(oldValues, values) ==
  /\ Len(oldValues.v) = Len(values.v)
  /\ \A i \in 1..Len(values.v) :
       LET value == values.v[i]
           oldValue == oldValues.v[i]
       IN  IF isPlainObject(oldValue) /\ isPlainObject(value)
           THEN ~diffObjects(oldValue, value).differs
           ELSE IF isArray(oldValue) /\ isArray(value)
           THEN equalArrays(oldValue, value)
           ELSE StrictEquals(oldValue, value)

(***************************************************************************)
(* Providers.  A plugin is an external capability object; the two plugins  *)
(* of the model differ in the optional hooks they define.                  *)
(***************************************************************************)
Plugins == {"web", "db"}

\* if (plugin.update)
HasUpdate(plugin) == plugin = "web"

\* if (plugin.pull)
HasPull(plugin) == plugin = "web"

\* plugin.pull(target): the fields refreshed from live infrastructure
pull(plugin, target) == Obj([live |-> Prim("on")])

\* plugin.identify(target): the projection on the identity fields
identify(plugin, target) ==
  Obj([name |-> Get(target, "name"), live |-> Get(target, "live")])

\* toObjectHash(values): a hash, taken to be free of collisions
toObjectHash(values) == <<"hash", values>>

\* The order of Object.entries(targetsFile)
PluginOrder == <<"db", "web">>

(***************************************************************************)
(* Inputs: the deploy script (a sequence of declarations) and the prior    *)
(* content of targets.yaml.                                                *)
(***************************************************************************)
T(name, size) == Obj([name |-> Prim(name), size |-> Prim(size)])

TL(name, size) == Obj([name |-> Prim(name), size |-> Prim(size), live |-> Prim("on")])

Decl(plugin, target, promise) == [hook |-> plugin, target |-> target, promise |-> promise]

DeclPool ==
  { Decl("web", T("x", "s1"), FALSE),
    Decl("web", T("x", "s2"), TRUE),
    Decl("web", T("y", "s1"), TRUE),
    Decl("db", T("x", "s1"), TRUE),
    Decl("db", T("x", "s2"), FALSE) }

Scripts == UNION {[1..n -> DeclPool] : n \in 0..MaxDecl}

PriorPool ==
  { << >>,
    [web |-> << >>, db |-> << >>],
    [web |-> <<TL("x", "s1"), TL("y", "s1")>>],
    [web |-> <<TL("x", "s1")>>, db |-> <<T("x", "s1")>>],
    [db |-> <<T("x", "s1")>>],
    [db |-> <<T("x", "s1"), T("x", "s2")>>] }

VARIABLES
  dryRun,               \* options.dryRun
  script,               \* the declarations the deploy script makes, in order
  run,                  \* 1 for the first run of deploy(), 2 for the second
  targetsFile,          \* the content of targets.yaml
  debugFile,            \* the content of targets.debug.yaml
  lockfile,             \* whether deploy.lock exists
  storeWrites,          \* number of targetsFile.setData calls
  debugWrites,          \* number of writes of targets.debug.yaml
  targetCache,          \* targetsFile.getData() at the start of the run
  savedTargetsByPlugin, \* the plugins whose saved targets were identified
  reusedTargets,        \* saved targets matched by a declared target
  updatedTargets,       \* declaration indices pushed to updatedTargets
  addedTargets,         \* declaration indices pushed to addedTargets
  revertFns,            \* the revert stack: numbers of the actions to undo
  deploying,            \* the Deferred `deploying`
  activePlugin,         \* the plugin named in the failure message
  targets,              \* the buffered DeployTargetArgs
  tasks,                \* one addTarget invocation per declaration
  targetIndex,          \* the cursor (0-based, as in the source)
  microtasks,           \* callbacks queued by queueMicrotask
  phase,                \* where deploy() stands
  killedTargets,        \* the result of getKillableTargets
  killIndex,            \* position of the kill loop in killedTargets
  revertIndex,          \* position of the revert loop in revertFns
  caught,               \* the error bound to `e` in the catch block
  result,               \* how deploy() settled
  actionLog,            \* history: spawn/update/kill hooks invoked, in order
  revertLog,            \* history: revert functions invoked, in order
  warnings,             \* the warnings logger.warnOnce has emitted, in order
  loaded,               \* history: times the secrets and plugins were loaded
  peer,                 \* a non-dry deploy() in another process, same project
  oldValues,            \* diffObjects called on its own: the first argument
  values,               \* the second argument
  changed,              \* the third argument, as the call leaves it
  differs,              \* what the call returns (`let differs = false`)
  cacheLoaded,          \* withCache: cache.loaded, per cache key
  cacheLoading,         \* cache.loading: the load whose promise is stored, 0 for none
  cacheLoaders,         \* cache.loaders, per cache key
  loads,                \* the loader invocations, in order, with their promises
  lastCall              \* the last getCachedState call and what it returned

vDiff == <<oldValues, values, changed, differs>>
vCache == <<cacheLoaded, cacheLoading, cacheLoaders, loads, lastCall>>
vIn == <<dryRun, script, run, peer, vDiff, vCache>>
vFile == <<targetsFile, debugFile, storeWrites, debugWrites>>
vBook == <<savedTargetsByPlugin, reusedTargets, updatedTargets, addedTargets>>
vQueue == <<targets, tasks, targetIndex, microtasks>>
vKill == <<killedTargets, killIndex>>
vCatch == <<revertIndex, caught>>
vLog == <<actionLog, revertLog, warnings, loaded>>

vars == <<vIn, vFile, lockfile, targetCache, vBook, revertFns, deploying,
          activePlugin, vQueue, phase, vKill, vCatch, result, vLog>>

NoDeferred == [state |-> "undefined", reason |-> "none"]

\* The keys of the cache.
CacheKeys == {"k1", "k2"}

\* A key cache.loaded has no entry for.
NotLoaded == [state |-> 0, expires |-> "never"]

\* No call of getCachedState has been made.
NoCall == [key |-> "none", loader |-> "none", oldPromise |-> 0, returned |-> "none",
           value |-> 0, invoked |-> FALSE]

\* const cache = { loading: {}, loaders: {}, loaded: {} }
EmptyCache ==
  /\ cacheLoaded = [key \in CacheKeys |-> NotLoaded]
  /\ cacheLoading = [key \in CacheKeys |-> 0]
  /\ cacheLoaders = [key \in CacheKeys |-> "none"]
  /\ loads = << >>
  /\ lastCall = NoCall

Init ==
  /\ dryRun \in BOOLEAN
  /\ script \in Scripts
  /\ run = 1
  /\ targetsFile \in PriorPool
  /\ targetCache = << >>
  /\ debugFile = << >>
  /\ lockfile \in BOOLEAN
  /\ storeWrites = 0
  /\ debugWrites = 0
  /\ savedTargetsByPlugin = {}
  /\ reusedTargets = {}
  /\ updatedTargets = << >>
  /\ addedTargets = << >>
  /\ revertFns = << >>
  /\ deploying = NoDeferred
  /\ activePlugin = "null"
  /\ targets = << >>
  /\ tasks = << >>
  /\ targetIndex = 0
  /\ microtasks = 0
  /\ phase = "init"
  /\ killedTargets = << >>
  /\ killIndex = 0
  /\ revertIndex = 0
  /\ caught = "none"
  /\ result = "none"
  /\ actionLog = << >>
  /\ revertLog = << >>
  /\ warnings = << >>
  /\ loaded = 0
  /\ peer = IF lockfile THEN "running" ELSE "idle"
  /\ oldValues = EmptyObject
  /\ values = EmptyObject
  /\ changed = << >>
  /\ differs = FALSE
  /\ EmptyCache

(***************************************************************************)
(* Helpers of the engine.                                                  *)
(***************************************************************************)
Reverse(seq) == [i \in 1..Len(seq) |-> seq[Len(seq) + 1 - i]]

\* A new entry of the history of provider actions.
Action(hook, plugin, decl, pos) == [hook |-> hook, plugin |-> plugin, decl |-> decl, pos |-> pos]

\* savedTarget._id, as defineTargetId sets it in findSavedTarget
SavedId(plugin, pos) == toObjectHash(identify(plugin, targetCache[plugin][pos]))

\* Mutant of findSavedTarget: the last saved target with the identity.
findSavedTargetLast(id, plugin) ==
  LET savedTargets == targetCache[plugin]
      matches == {pos \in 1..Len(savedTargets) : SavedId(plugin, pos) = id}
  IN  IF matches = {} THEN 0
      ELSE CHOOSE pos \in matches : \A other \in matches : pos >= other

\* savedTargets.find(savedTarget => savedTarget._id == target._id): the
\* position of the first match in the plugin's saved targets, 0 for none
findSavedTarget(id, plugin) ==
  LET savedTargets == targetCache[plugin]
      matches == {pos \in 1..Len(savedTargets) : SavedId(plugin, pos) = id}
  IN  IF matches = {} THEN 0
      ELSE CHOOSE pos \in matches : \A other \in matches : pos <= other

\* Mutant of addRevertFn: the function is added at the front (unshift).
addRevertFnUnshift(fns, returned, action) ==
  IF returned = "revert" THEN <<action>> \o fns ELSE fns

\* addRevertFn(revert, plugin, action): a returned function is pushed
addRevertFn(fns, returned, action) ==
  IF returned = "revert" THEN Append(fns, action) ELSE fns

\* The message of the warning depends on the plugin and on the kind of the
\* action only.
Message(plugin, hook) == <<plugin, hook>>

\* Mutant of warnOnce: the test of options.dryRun has lost its negation.
warnOnceInDryRun(log, returned, plugin, hook, n) ==
  IF returned = "revert" \/ ~dryRun THEN log
  ELSE IF \E k \in 1..Len(log) : log[k].message = Message(plugin, hook) THEN log
  ELSE Append(log, [message |-> Message(plugin, hook), action |-> n])

\* addRevertFn, the else branch: logger.warnOnce(message) when dryRun is
\* off; a message that was emitted before is not emitted again.  `n` is the
\* number of the action the call is made for.
warnOnce(log, returned, plugin, hook, n) ==
  IF returned = "revert" \/ dryRun THEN log
  ELSE IF \E k \in 1..Len(log) : log[k].message = Message(plugin, hook) THEN log
  ELSE Append(log, [message |-> Message(plugin, hook), action |-> n])

\* getKillableTargets: the saved targets not in reusedTargets, provider
\* by provider
RECURSIVE KillablesFrom(_, _)
KillablesFrom(k, reused) ==
  IF k > Len(PluginOrder) THEN << >>
  ELSE LET name == PluginOrder[k]
           state == IF name \in DOMAIN targetCache THEN targetCache[name] ELSE << >>
           kept == SelectSeq([pos \in 1..Len(state) |-> <<name, pos>>],
                             LAMBDA ref : ref \notin reused)
       IN  kept \o KillablesFrom(k + 1, reused)

getKillableTargets(reused) == KillablesFrom(1, reused)

\* What targets.yaml keeps of a declared target: `targets` holds the value
\* that was passed to declare(), which for a promise has no own enumerable
\* property (the resolved object is bound to addTarget's parameter only).
Stored(args) == IF args.promise THEN EmptyObject ELSE args.target

\* const newTargetCache: the declared targets, grouped by plugin name
NewTargetCache(buffer) ==
  [name \in {buffer[i].hook : i \in 1..Len(buffer)} |->
     LET mine == SelectSeq(buffer, LAMBDA args : args.hook = name)
     IN  [i \in 1..Len(mine) |-> Stored(mine[i])]]

\* The addTarget invocation of a declaration, before it is dispatched.
NewTask(args, pc) ==
  [pc |-> pc, index |-> 0, starts |-> 0,
   settled |-> IF args.promise THEN "pending" ELSE "resolved", overtook |-> FALSE,
   target |-> Undefined, id |-> <<"none">>, changed |-> Undefined, saved |-> 0,
   hook |-> "none", action |-> 0, returned |-> "pending", error |-> "none"]

\* addTarget(hook, target) is called: it runs up to `await target`.
Dispatched(task) ==
  [task EXCEPT !.pc = "await", !.index = targetIndex, !.starts = @ + 1]

\* Mutant of Refreshed: what plugin.pull returns is dropped.
RefreshedNever(plugin, target) == target

\* const pulled = await plugin.pull(target)
\* if (pulled) Object.assign(target, pulled)
Refreshed(plugin, target) ==
  IF HasPull(plugin) THEN ObjectAssign(target, pull(plugin, target)) ELSE target

\* Mutant of AtCursor: the comparison lets later declarations through.
AtCursorOrLater(index) == index >= targetIndex

\* if (index == targetIndex)
AtCursor(index) == index = targetIndex

\* Mutant of NextCursor: the cursor skips a declaration.
NextCursorSkips(cursor) == cursor + 2

\* ++targetIndex
NextCursor(cursor) == cursor + 1

\* Mutant of MoreBuffered: the last buffered declaration is not counted.
MoreBufferedOffByOne(cursor) == cursor < Len(targets) - 1

\* if (++targetIndex < targets.length), with the cursor already advanced
MoreBuffered(cursor) == cursor < Len(targets)

\* Mutant of WritesDebugFile: the test of options.dryRun is inverted.
WritesDebugFileInverted == ~dryRun

\* if (options.dryRun), after the try block
WritesDebugFile == dryRun

\* Mutant of NeedsSetup: every declaration loads the secrets and plugins.
NeedsSetupAlways(index) == index >= 0

\* if (index == 0), in context.addTarget
NeedsSetup(index) == index = 0

\* Mutant of MarkReused: reusedTargets.add(savedTarget) is missing.
MarkReusedNever(reused, plugin, saved) == reused

\* if (savedTarget) reusedTargets.add(savedTarget); saved = 0: no match
MarkReused(reused, plugin, saved) ==
  IF saved = 0 THEN reused ELSE reused \cup {<<plugin, saved>>}

\* Mutant of AlreadyInProgress: the test of options.dryRun is inverted.
AlreadyInProgressInDryRun == dryRun /\ lockfile

\* if (!options.dryRun && deployLockfile.exists)
AlreadyInProgress == ~dryRun /\ lockfile

\* The number of the kill-phase action in flight.
LastKill ==
  CHOOSE n \in 1..Len(actionLog) :
    actionLog[n].decl = 0 /\ \A m \in (n + 1)..Len(actionLog) : actionLog[m].decl # 0

(***************************************************************************)
(* deploy(): the catch block, the finally block and what follows it.       *)
(***************************************************************************)
\* catch (e) { ... } finally { deployLockfile.delete() }
\* Sets caught, result, phase, lockfile, revertFns and revertIndex.
EnterCatch(e) ==
  /\ caught' = e
  /\ IF activePlugin = "null"
     THEN \* `activePlugin.name` of null throws inside the catch block
          /\ result' = "nullPlugin"
          /\ phase' = "done"
          /\ lockfile' = FALSE
          /\ UNCHANGED <<revertFns, revertIndex>>
     ELSE IF dryRun
     THEN /\ result' = e
          /\ phase' = "done"
          /\ lockfile' = FALSE
          /\ UNCHANGED <<revertFns, revertIndex>>
     ELSE IF revertFns = << >>
     THEN /\ result' = e
          /\ phase' = "done"
          /\ lockfile' = FALSE
          /\ UNCHANGED <<revertFns, revertIndex>>
     ELSE \* revertFns.reverse() reverses in place; the loop starts
          /\ revertFns' = Reverse(revertFns)
          /\ revertIndex' = 1
          /\ phase' = "rollback"
          /\ UNCHANGED <<result, lockfile>>

\* The try block ended normally: finally, then newTargetCache is written.
\* Sets lockfile, vFile, result and phase.
FinishTry ==
  /\ lockfile' = FALSE
  /\ IF WritesDebugFile
     THEN /\ debugFile' = NewTargetCache(targets)
          /\ debugWrites' = debugWrites + 1
          /\ result' = "dry"
          /\ phase' = "done"
          /\ UNCHANGED <<targetsFile, storeWrites>>
     ELSE /\ targetsFile' = NewTargetCache(targets)
          /\ storeWrites' = storeWrites + 1
          /\ phase' = "pushing"
          /\ UNCHANGED <<debugFile, debugWrites, result>>

\* deploying.resolve() / deploying.reject(e): a settled Deferred stays as it is
Resolved(deferred) ==
  IF deferred.state = "pending" THEN [state |-> "resolved", reason |-> "none"] ELSE deferred

Rejected(deferred, e) ==
  IF deferred.state = "pending" THEN [state |-> "rejected", reason |-> e] ELSE deferred

\* addTarget's catch: return (deploying || Promise).reject(e)
\* Sets tasks and deploying.
TaskCatch(i, e) ==
  IF deploying.state = "undefined"
  THEN /\ tasks' = [tasks EXCEPT ![i].pc = "failed", ![i].error = e, ![i].returned = "rejected"]
       /\ UNCHANGED deploying
  ELSE /\ tasks' = [tasks EXCEPT ![i].pc = "failed", ![i].error = e, ![i].returned = "undefined"]
       /\ deploying' = Rejected(deploying, e)

(***************************************************************************)
(* Actions.                                                                *)
(***************************************************************************)
\* deploy() up to the try block: git status, the lock check, the lock, the
\* read of targets.yaml.  gitStatus is the output of `git status --porcelain`;
\* readable is whether targetsFile.getData() returns (it throws on a file
\* it cannot read or parse).  Nothing catches an exception here: the try
\* block starts later, so its finally does not run.
Start ==
  /\ phase = "init"
  /\ \E gitStatus \in BOOLEAN, readable \in BOOLEAN :
       IF ~dryRun /\ gitStatus
       THEN \* throw Error('[saus] Cannot deploy with unstaged changes')
            /\ result' = "unstaged"
            /\ phase' = "done"
            /\ UNCHANGED <<lockfile, targetCache>>
       ELSE IF AlreadyInProgress
       THEN \* throw Error('[saus] A deployment is already in progress')
            /\ result' = "locked"
            /\ phase' = "done"
            /\ UNCHANGED <<lockfile, targetCache>>
       ELSE IF ~readable
       THEN \* deployLockfile.setBuffer(...), then getData() throws
            /\ lockfile' = TRUE
            /\ result' = "read"
            /\ phase' = "done"
            /\ UNCHANGED targetCache
       ELSE /\ lockfile' = TRUE
            /\ targetCache' = targetsFile
            /\ phase' = "loading"
            /\ UNCHANGED result
  /\ UNCHANGED <<vIn, vFile, vBook, revertFns, deploying, activePlugin, vQueue,
                 vKill, vCatch, vLog>>

\* The deploy script calls declare(): context.addTarget(...args)
Declare ==
  /\ phase = "loading"
  /\ Len(targets) < Len(script)
  /\ LET args == script[Len(targets) + 1]
         index == Len(targets)
     IN  /\ targets' = Append(targets, args)
         /\ IF NeedsSetup(index)
            THEN /\ tasks' = Append(tasks, NewTask(args, "setup"))
                 /\ UNCHANGED activePlugin
            ELSE IF AtCursor(index)
            THEN /\ tasks' = Append(tasks, Dispatched(NewTask(args, "parked")))
                 /\ activePlugin' = args.hook
            ELSE /\ tasks' = Append(tasks, NewTask(args, "parked"))
                 /\ UNCHANGED activePlugin
  /\ UNCHANGED <<vIn, vFile, lockfile, targetCache, vBook, revertFns, deploying,
                 targetIndex, microtasks, phase, vKill, vCatch, result, vLog>>

\* context.addTarget of a declaration that loads the secrets and the
\* plugins (the first one): the loads complete, then the index is compared
\* with the cursor
SetupDone ==
  \E i \in 1..Len(tasks) :
    /\ tasks[i].pc = "setup"
    /\ loaded' = loaded + 1
    /\ IF AtCursor(i - 1)
       THEN /\ tasks' = [tasks EXCEPT ![i] = Dispatched(@)]
            /\ activePlugin' = targets[i].hook
       ELSE /\ tasks' = [tasks EXCEPT ![i].pc = "parked"]
            /\ UNCHANGED activePlugin
    /\ UNCHANGED <<vIn, vFile, lockfile, targetCache, vBook, revertFns, deploying,
                   targets, targetIndex, microtasks, phase, vKill, vCatch, result,
                   actionLog, revertLog, warnings>>

\* The promise passed to declare() settles (overtook: history, whether the
\* promise of an earlier declaration was still pending then).
TargetSettles ==
  \E i \in 1..Len(tasks) :
    /\ tasks[i].settled = "pending"
    /\ \E outcome \in {"resolved", "rejected"} :
         tasks' = [tasks EXCEPT ![i].settled = outcome,
                                ![i].overtook = \E j \in 1..(i - 1) : tasks[j].settled = "pending"]
    /\ UNCHANGED <<vIn, vFile, lockfile, targetCache, vBook, revertFns, deploying,
                   activePlugin, targets, targetIndex, microtasks, phase, vKill,
                   vCatch, result, vLog>>

\* addTarget from `await target` to the first spawn/update/kill call:
\* pull, identify, findSavedTarget, diffObjects
Reconcile ==
  \E i \in 1..Len(tasks) :
    /\ tasks[i].pc = "await"
    /\ tasks[i].settled # "pending"
    /\ LET plugin == targets[i].hook
           target == Refreshed(plugin, targets[i].target)
           id == toObjectHash(identify(plugin, target))
           saved == findSavedTarget(id, plugin)
           changeSet == IF saved = 0 THEN Undefined
                        ELSE Obj(diffObjects(targetCache[plugin][saved], target).changed)
           hook == IF saved = 0 THEN "spawn" ELSE IF HasUpdate(plugin) THEN "update" ELSE "kill"
           mutated == IF targets[i].promise THEN targets
                      ELSE [targets EXCEPT ![i].target = target]
       IN  \/ \* the declared promise rejected
              /\ tasks[i].settled = "rejected"
              /\ TaskCatch(i, "target")
              /\ UNCHANGED <<targets, vBook, actionLog>>
           \/ \* plugin.pull or plugin.identify throws
              /\ tasks[i].settled = "resolved"
              /\ TaskCatch(i, "hook")
              /\ UNCHANGED <<targets, vBook, actionLog>>
           \/ \* targetCache[plugin.name] is undefined
              /\ tasks[i].settled = "resolved"
              /\ plugin \notin DOMAIN targetCache
              /\ TaskCatch(i, "TypeError")
              /\ targets' = mutated
              /\ UNCHANGED <<vBook, actionLog>>
           \/ /\ tasks[i].settled = "resolved"
              /\ plugin \in DOMAIN targetCache
              /\ targets' = mutated
              /\ savedTargetsByPlugin' = savedTargetsByPlugin \cup {plugin}
              /\ reusedTargets' = MarkReused(reusedTargets, plugin, saved)
              /\ IF saved # 0 /\ ~diffObjects(targetCache[plugin][saved], target).differs
                 THEN \* return target // Nothing changed.
                      /\ tasks' = [tasks EXCEPT ![i].pc = "unchanged", ![i].target = target,
                                                ![i].id = id, ![i].changed = changeSet,
                                                ![i].saved = saved, ![i].returned = "target"]
                      /\ UNCHANGED actionLog
                 ELSE /\ actionLog' = Append(actionLog,
                            Action(hook, plugin, i, IF hook = "kill" THEN saved ELSE 0))
                      /\ tasks' = [tasks EXCEPT ![i].pc = "hook", ![i].target = target,
                                                ![i].id = id, ![i].changed = changeSet,
                                                ![i].saved = saved, ![i].hook = hook,
                                                ![i].action = Len(actionLog) + 1]
              /\ UNCHANGED <<deploying, updatedTargets, addedTargets>>
    /\ UNCHANGED <<vIn, vFile, lockfile, targetCache, revertFns, activePlugin,
                   targetIndex, microtasks, phase, vKill, vCatch, result, revertLog,
                   warnings, loaded>>

\* The spawn/update/kill call of addTarget returns or throws; after the
\* last one the lists are updated and the cursor advances.
HookReturns ==
  \E i \in 1..Len(tasks) :
    /\ tasks[i].pc = "hook"
    /\ \E returned \in {"revert", "void", "throw"} :
         IF returned = "throw"
         THEN /\ TaskCatch(i, tasks[i].hook)
              /\ UNCHANGED <<revertFns, actionLog, updatedTargets, addedTargets,
                             targetIndex, microtasks, warnings>>
         ELSE /\ revertFns' = addRevertFn(revertFns, returned, tasks[i].action)
              /\ warnings' = warnOnce(warnings, returned, targets[i].hook, tasks[i].hook,
                                      tasks[i].action)
              /\ IF tasks[i].hook = "kill"
                 THEN \* no update hook: kill(savedTarget) is followed by spawn(target)
                      /\ actionLog' = Append(actionLog, Action("spawn", targets[i].hook, i, 0))
                      /\ tasks' = [tasks EXCEPT ![i].hook = "spawn",
                                                ![i].action = Len(actionLog) + 1]
                      /\ UNCHANGED <<updatedTargets, addedTargets, targetIndex,
                                     microtasks, deploying>>
                 ELSE /\ IF tasks[i].saved # 0
                         THEN /\ updatedTargets' = Append(updatedTargets, i)
                              /\ UNCHANGED addedTargets
                         ELSE /\ addedTargets' = Append(addedTargets, i)
                              /\ UNCHANGED updatedTargets
                      /\ IF AtCursor(tasks[i].index)
                         THEN /\ targetIndex' = NextCursor(targetIndex)
                              /\ IF MoreBuffered(NextCursor(targetIndex))
                                 THEN /\ microtasks' = microtasks + 1
                                      /\ UNCHANGED deploying
                                 ELSE /\ deploying' = Resolved(deploying)
                                      /\ UNCHANGED microtasks
                         ELSE UNCHANGED <<targetIndex, microtasks, deploying>>
                      /\ tasks' = [tasks EXCEPT ![i].pc = "done", ![i].returned = "target"]
                      /\ UNCHANGED actionLog
    /\ UNCHANGED <<vIn, vFile, lockfile, targetCache, savedTargetsByPlugin, reusedTargets,
                   activePlugin, targets, phase, vKill, vCatch, result, revertLog, loaded>>

\* The queueMicrotask callback: the declaration at the cursor is dispatched.
Microtask ==
  /\ microtasks > 0
  /\ targetIndex < Len(targets)
  /\ microtasks' = microtasks - 1
  /\ tasks' = [tasks EXCEPT ![targetIndex + 1] = Dispatched(@)]
  /\ activePlugin' = targets[targetIndex + 1].hook
  /\ UNCHANGED <<vIn, vFile, lockfile, targetCache, vBook, revertFns, deploying,
                 targets, targetIndex, phase, vKill, vCatch, result, vLog>>

\* await loadDeployFile(context) resolves: deploying = defer()
ScriptFinishes ==
  /\ phase = "loading"
  /\ Len(targets) = Len(script)
  /\ deploying' = [state |-> "pending", reason |-> "none"]
  /\ phase' = "awaiting"
  /\ UNCHANGED <<vIn, vFile, lockfile, targetCache, vBook, revertFns, activePlugin,
                 vQueue, vKill, vCatch, result, vLog>>

\* await loadDeployFile(context) rejects: the script throws an error of its
\* own, or the rejection of a declare() promise it awaited
ScriptThrows ==
  /\ phase = "loading"
  /\ \E e \in {"script"} \cup {tasks[i].error : i \in {j \in 1..Len(tasks) : tasks[j].returned = "rejected"}} :
       EnterCatch(e)
  /\ UNCHANGED <<vIn, vFile, targetCache, vBook, deploying, activePlugin, vQueue,
                 vKill, vLog>>

\* await deploying settles: getKillableTargets, numChanged, the first kill
DeployingSettled ==
  /\ phase = "awaiting"
  /\ deploying.state \in {"resolved", "rejected"}
  /\ IF deploying.state = "rejected"
     THEN /\ EnterCatch(deploying.reason)
          /\ UNCHANGED <<vFile, vKill, activePlugin, actionLog>>
     ELSE LET killed == getKillableTargets(reusedTargets)
              numChanged == Len(killed) + Len(updatedTargets) + Len(addedTargets)
          IN  /\ killedTargets' = killed
              /\ IF numChanged = 0
                 THEN \* return logger.info('No deployment actions were required.')
                      /\ result' = "noop"
                      /\ phase' = "done"
                      /\ lockfile' = FALSE
                      /\ UNCHANGED <<vFile, killIndex, activePlugin, actionLog>>
                 ELSE IF killed = << >>
                 THEN /\ FinishTry
                      /\ UNCHANGED <<killIndex, activePlugin, actionLog>>
                 ELSE /\ activePlugin' = killed[1][1]
                      /\ actionLog' = Append(actionLog, Action("kill", killed[1][1], 0, killed[1][2]))
                      /\ killIndex' = 1
                      /\ phase' = "killing"
                      /\ UNCHANGED <<vFile, lockfile, result>>
              /\ UNCHANGED <<revertFns, vCatch>>
  /\ UNCHANGED <<vIn, targetCache, vBook, deploying, vQueue, revertLog, warnings, loaded>>

\* A kill of the kill loop returns or throws; the next one is called, or
\* the try block ends.
KillReturns ==
  /\ phase = "killing"
  /\ \E returned \in {"revert", "void", "throw"} :
       IF returned = "throw"
       THEN /\ EnterCatch("kill")
            /\ UNCHANGED <<vFile, killIndex, activePlugin, actionLog, warnings>>
       ELSE /\ revertFns' = addRevertFn(revertFns, returned, LastKill)
            /\ warnings' = warnOnce(warnings, returned, killedTargets[killIndex][1], "kill",
                                    LastKill)
            /\ IF killIndex < Len(killedTargets)
               THEN /\ activePlugin' = killedTargets[killIndex + 1][1]
                    /\ actionLog' = Append(actionLog,
                          Action("kill", killedTargets[killIndex + 1][1], 0,
                                 killedTargets[killIndex + 1][2]))
                    /\ killIndex' = killIndex + 1
                    /\ UNCHANGED <<vFile, lockfile, result, phase>>
               ELSE /\ FinishTry
                    /\ UNCHANGED <<killIndex, activePlugin, actionLog>>
            /\ UNCHANGED vCatch
  /\ UNCHANGED <<vIn, targetCache, vBook, deploying, vQueue, killedTargets, revertLog,
                 loaded>>

\* for (const revert of revertFns.reverse()) await revert()
\* One revert function is called and settles; the iterator reads the live
\* array, so the loop ends when the index passes its current length.
Revert ==
  /\ phase = "rollback"
  /\ revertLog' = Append(revertLog, revertFns[revertIndex])
  /\ \E outcome \in {"ok", "throw"} :
       IF outcome = "throw"
       THEN /\ result' = "revert"
            /\ phase' = "done"
            /\ lockfile' = FALSE
            /\ UNCHANGED revertIndex
       ELSE IF revertIndex < Len(revertFns)
       THEN /\ revertIndex' = revertIndex + 1
            /\ UNCHANGED <<result, phase, lockfile>>
       ELSE \* throw e
            /\ result' = caught
            /\ phase' = "done"
            /\ lockfile' = FALSE
            /\ UNCHANGED revertIndex
  /\ UNCHANGED <<vIn, vFile, targetCache, vBook, revertFns, deploying, activePlugin,
                 vQueue, vKill, caught, actionLog, warnings, loaded>>

\* Mutant of PushCachedTargets: the push is made inside the try block, so
\* its failure is caught and the revert loop runs.
PushCachedTargetsInTry ==
  /\ phase = "pushing"
  /\ \E outcome \in {"ok", "push"} :
       IF outcome = "ok"
       THEN /\ result' = "ok"
            /\ phase' = "done"
            /\ UNCHANGED <<lockfile, revertFns, vCatch>>
       ELSE EnterCatch("push")
  /\ UNCHANGED <<vIn, vFile, targetCache, vBook, deploying, activePlugin, vQueue,
                 vKill, vLog>>

\* await pushCachedTargets(context), after targetsFile.setData
PushCachedTargets ==
  /\ phase = "pushing"
  /\ \E outcome \in {"ok", "push"} : result' = outcome
  /\ phase' = "done"
  /\ UNCHANGED <<vIn, vFile, lockfile, targetCache, vBook, revertFns, deploying,
                 activePlugin, vQueue, vKill, vCatch, vLog>>

Next ==
  \/ Start
  \/ Declare
  \/ SetupDone
  \/ TargetSettles
  \/ Reconcile
  \/ HookReturns
  \/ Microtask
  \/ ScriptFinishes
  \/ ScriptThrows
  \/ DeployingSettled
  \/ KillReturns
  \/ Revert
  \/ PushCachedTargets

Spec == Init /\ [][Next]_vars

\* A second run of deploy() on the store the first run wrote, with the same
\* deploy script.
SecondRun ==
  /\ run = 1
  /\ phase = "done"
  /\ result = "ok"
  /\ run' = 2
  /\ storeWrites' = 0
  /\ debugWrites' = 0
  /\ targetCache' = << >>
  /\ savedTargetsByPlugin' = {}
  /\ reusedTargets' = {}
  /\ updatedTargets' = << >>
  /\ addedTargets' = << >>
  /\ revertFns' = << >>
  /\ deploying' = NoDeferred
  /\ activePlugin' = "null"
  /\ targets' = << >>
  /\ tasks' = << >>
  /\ targetIndex' = 0
  /\ microtasks' = 0
  /\ phase' = "init"
  /\ killedTargets' = << >>
  /\ killIndex' = 0
  /\ revertIndex' = 0
  /\ caught' = "none"
  /\ result' = "none"
  /\ actionLog' = << >>
  /\ revertLog' = << >>
  /\ warnings' = << >>
  /\ loaded' = 0
  /\ UNCHANGED <<dryRun, script, targetsFile, debugFile, lockfile, peer, vDiff, vCache>>

NextTwoRuns ==
  \/ Next
  \/ SecondRun

SpecTwoRuns == Init /\ [][NextTwoRuns]_vars

(***************************************************************************)
(* A second process: a non-dry deploy() of the same project, of which only *)
(* the steps on deploy.lock are modelled.  The existence test and the      *)
(* write of the file are two file-system operations.                       *)
(***************************************************************************)
\* if (!options.dryRun && deployLockfile.exists) throw ..., in the peer
PeerChecks ==
  /\ peer = "idle"
  /\ peer' = IF lockfile THEN "refused" ELSE "checked"
  /\ UNCHANGED <<dryRun, script, run, vDiff, vCache, vFile, lockfile, targetCache, vBook,
                 revertFns, deploying, activePlugin, vQueue, phase, vKill, vCatch,
                 result, vLog>>

\* deployLockfile.setBuffer(Buffer.alloc(1)), in the peer
PeerCreates ==
  /\ peer = "checked"
  /\ peer' = "running"
  /\ lockfile' = TRUE
  /\ UNCHANGED <<dryRun, script, run, vDiff, vCache, vFile, targetCache, vBook, revertFns,
                 deploying, activePlugin, vQueue, phase, vKill, vCatch, result, vLog>>

\* finally { deployLockfile.delete() }, in the peer
PeerFinishes ==
  /\ peer = "running"
  /\ peer' = "finished"
  /\ lockfile' = FALSE
  /\ UNCHANGED <<dryRun, script, run, vDiff, vCache, vFile, targetCache, vBook, revertFns,
                 deploying, activePlugin, vQueue, phase, vKill, vCatch, result, vLog>>

NextPeers ==
  \/ Next
  \/ PeerChecks
  \/ PeerCreates
  \/ PeerFinishes

SpecPeers == Init /\ [][NextPeers]_vars

(***************************************************************************)
(* diffObjects called on its own, on two values drawn from a bounded set:  *)
(* objects with a field `a` holding a scalar, an object or an array, and   *)
(* a field `b` holding a scalar; each field may be absent.                 *)
(***************************************************************************)
Leaves == {Prim("1"), Prim("2"), Undefined}

FieldKeys == {"a", "b"}

Composites ==
  {Obj(f) : f \in UNION {[D -> Leaves] : D \in SUBSET FieldKeys}}
    \cup {Arr(seq) : seq \in UNION {[1..n -> Leaves] : n \in 0..MaxLen}}

DiffInputs ==
  {Obj(f) : f \in UNION {[D -> Leaves \cup Composites] : D \in SUBSET {"a"}}}
    \cup {Obj(f) : f \in {g \in UNION {[D -> Leaves \cup Composites] : D \in {{"b"}, FieldKeys}} :
                           g["b"] \in Leaves}}

InitDiff ==
  /\ oldValues \in DiffInputs
  /\ values \in DiffInputs
  /\ changed = << >>
  /\ differs = FALSE
  /\ phase = "diff"
  /\ dryRun = FALSE
  /\ script = << >>
  /\ run = 1
  /\ targetsFile = << >>
  /\ targetCache = << >>
  /\ debugFile = << >>
  /\ lockfile = FALSE
  /\ storeWrites = 0
  /\ debugWrites = 0
  /\ savedTargetsByPlugin = {}
  /\ reusedTargets = {}
  /\ updatedTargets = << >>
  /\ addedTargets = << >>
  /\ revertFns = << >>
  /\ deploying = NoDeferred
  /\ activePlugin = "null"
  /\ targets = << >>
  /\ tasks = << >>
  /\ targetIndex = 0
  /\ microtasks = 0
  /\ killedTargets = << >>
  /\ killIndex = 0
  /\ revertIndex = 0
  /\ caught = "none"
  /\ result = "none"
  /\ actionLog = << >>
  /\ revertLog = << >>
  /\ warnings = << >>
  /\ loaded = 0
  /\ peer = "idle"
  /\ EmptyCache

\* differs = diffObjects(oldValues, values, changed = {})
DiffObjects ==
  /\ phase = "diff"
  /\ LET d == diffObjects(oldValues, values)
     IN  /\ differs' = d.differs
         /\ changed' = d.changed
  /\ phase' = "diffed"
  /\ UNCHANGED <<dryRun, script, run, peer, oldValues, values, vCache, vFile, lockfile,
                 targetCache, vBook, revertFns, deploying, activePlugin, vQueue,
                 vKill, vCatch, result, vLog>>

NextDiff == DiffObjects

SpecDiff == InitDiff /\ [][NextDiff]_vars

(***************************************************************************)
(* withCache (src/src/core/withCache.ts): getCachedState over one Cache    *)
(* object.  A load is one invocation of a loader together with the promise *)
(* getCachedState made for it; the promise stored in cache.loading is      *)
(* named by the number of its load.  The state a load resolves with is     *)
(* named by that number too.                                               *)
(***************************************************************************)
\* getDefaultLoader(cacheKey): defined for one key, undefined for the other
getDefaultLoader(cacheKey) == IF cacheKey = "k1" THEN "default" ELSE "none"

\* if (entry) { const expiresAt = entry[1] ?? Infinity
\*              if (expiresAt - Date.now() > 0) ... }
Fresh(entry) == entry.state # 0 /\ entry.expires # "past"

\* Mutant of ReturnsOldPromise: a call that brings a loader starts a load.
ReturnsOldPromiseWithoutLoader(oldPromise, loader) == loader = "none"

\* if (oldPromise || !(loader ||= getDefaultLoader(cacheKey)))
ReturnsOldPromise(oldPromise, loader) == oldPromise # 0 \/ loader = "none"

\* Mutant of IsCurrent: the comparison with cache.loading is missing.
IsCurrentAlways(n, cacheKey) == n > 0

\* if (promise == cache.loading[cacheKey])
IsCurrent(n, cacheKey) == cacheLoading[cacheKey] = n

\* resolve(state) / reject(error) of the promise of a load: the first
\* settlement stays
Settle(promise, outcome) == IF promise = "pending" THEN outcome ELSE promise

InitCache ==
  /\ EmptyCache
  /\ phase = "cache"
  /\ oldValues = EmptyObject
  /\ values = EmptyObject
  /\ changed = << >>
  /\ differs = FALSE
  /\ dryRun = FALSE
  /\ script = << >>
  /\ run = 1
  /\ targetsFile = << >>
  /\ targetCache = << >>
  /\ debugFile = << >>
  /\ lockfile = FALSE
  /\ storeWrites = 0
  /\ debugWrites = 0
  /\ savedTargetsByPlugin = {}
  /\ reusedTargets = {}
  /\ updatedTargets = << >>
  /\ addedTargets = << >>
  /\ revertFns = << >>
  /\ deploying = NoDeferred
  /\ activePlugin = "null"
  /\ targets = << >>
  /\ tasks = << >>
  /\ targetIndex = 0
  /\ microtasks = 0
  /\ killedTargets = << >>
  /\ killIndex = 0
  /\ revertIndex = 0
  /\ caught = "none"
  /\ result = "none"
  /\ actionLog = << >>
  /\ revertLog = << >>
  /\ warnings = << >>
  /\ loaded = 0
  /\ peer = "idle"

\* What no action of withCache changes.
vDeploy == <<dryRun, script, run, peer, vDiff, vFile, lockfile, targetCache, vBook,
             revertFns, deploying, activePlugin, vQueue, phase, vKill, vCatch, result,
             vLog>>

\* getCachedState(cacheKey, loader): the whole call.  A new load invokes
\* the loader inside the promise executor; `timer` is whether the loader
\* calls cacheControl.setTimeout.
GetCachedState ==
  /\ phase = "cache"
  /\ \E cacheKey \in CacheKeys, given \in {"none", "given"} :
       LET entry == cacheLoaded[cacheKey]
           oldPromise == cacheLoading[cacheKey]
           loader == IF given # "none" THEN given ELSE getDefaultLoader(cacheKey)
           call == [key |-> cacheKey, loader |-> given, oldPromise |-> oldPromise,
                    returned |-> "undefined", value |-> 0, invoked |-> FALSE]
       IN  IF Fresh(entry)
           THEN \* return Promise.resolve(entry[0])
                /\ lastCall' = [call EXCEPT !.returned = "value", !.value = entry.state]
                /\ UNCHANGED <<cacheLoaded, cacheLoading, cacheLoaders, loads>>
           ELSE IF ReturnsOldPromise(oldPromise, loader)
           THEN \* return oldPromise
                /\ lastCall' = IF oldPromise = 0 THEN call
                               ELSE [call EXCEPT !.returned = "promise", !.value = oldPromise]
                /\ UNCHANGED <<cacheLoaded, cacheLoading, cacheLoaders, loads>>
           ELSE /\ Len(loads) < MaxLoads
                /\ \E timer \in {"none", "armed"} :
                     loads' = Append(loads,
                       [key |-> cacheKey, loader |-> loader, oldValue |-> entry.state,
                        status |-> "running", timer |-> timer, promise |-> "pending",
                        maxAge |-> "infinite", stale |-> "unknown"])
                /\ cacheLoaders' = [cacheLoaders EXCEPT ![cacheKey] = loader]
                /\ cacheLoading' = [cacheLoading EXCEPT ![cacheKey] = Len(loads) + 1]
                /\ lastCall' = [call EXCEPT !.returned = "promise", !.value = Len(loads) + 1,
                                            !.invoked = TRUE]
                /\ UNCHANGED cacheLoaded
  /\ UNCHANGED vDeploy

\* The promise the loader returned resolves: the first handler of
\* Promise.resolve(loader(entryConfig)).then.  maxAge is what the loader
\* left in entryConfig.maxAge (zero: not positive).
LoaderResolves ==
  /\ \E n \in 1..Len(loads), maxAge \in {"zero", "finite", "infinite"} :
       LET cacheKey == loads[n].key
       IN  /\ loads[n].status = "running"
           /\ IF IsCurrent(n, cacheKey)
              THEN /\ cacheLoading' = [cacheLoading EXCEPT ![cacheKey] = 0]
                   /\ cacheLoaded' =
                        IF maxAge = "zero" THEN cacheLoaded
                        ELSE [cacheLoaded EXCEPT ![cacheKey] =
                                [state |-> n,
                                 expires |-> IF maxAge = "finite" THEN "later" ELSE "never"]]
              ELSE UNCHANGED <<cacheLoaded, cacheLoading>>
           /\ loads' = [loads EXCEPT ![n].status = "resolved", ![n].maxAge = maxAge,
                                     ![n].stale = IF IsCurrent(n, cacheKey) THEN "no" ELSE "yes",
                                     ![n].promise = Settle(@, "resolved")]
  /\ UNCHANGED <<cacheLoaders, lastCall, vDeploy>>

\* The promise the loader returned rejects (or the loader throws): the
\* second handler.
LoaderRejects ==
  /\ \E n \in 1..Len(loads) :
       LET cacheKey == loads[n].key
       IN  /\ loads[n].status = "running"
           /\ IF IsCurrent(n, cacheKey)
              THEN cacheLoading' = [cacheLoading EXCEPT ![cacheKey] = 0]
              ELSE UNCHANGED cacheLoading
           /\ loads' = [loads EXCEPT ![n].status = "rejected",
                                     ![n].stale = IF IsCurrent(n, cacheKey) THEN "no" ELSE "yes",
                                     ![n].promise = Settle(@, "rejected")]
  /\ UNCHANGED <<cacheLoaded, cacheLoaders, lastCall, vDeploy>>

\* The callback of setTimeout in cacheControl.setTimeout: the entry is
\* deleted if it is still this load's, the signal aborts, the promise is
\* rejected.  The timer is never cleared, so it also fires after the load
\* has settled.
TimerFires ==
  /\ \E n \in 1..Len(loads) :
       LET cacheKey == loads[n].key
       IN  /\ loads[n].timer = "armed"
           /\ IF IsCurrent(n, cacheKey)
              THEN cacheLoading' = [cacheLoading EXCEPT ![cacheKey] = 0]
              ELSE UNCHANGED cacheLoading
           /\ loads' = [loads EXCEPT ![n].timer = "fired",
                                     ![n].promise = Settle(@, "rejected")]
  /\ UNCHANGED <<cacheLoaded, cacheLoaders, lastCall, vDeploy>>

\* Date.now() passes the expiresAt of a loaded entry.
Expires ==
  /\ \E cacheKey \in CacheKeys :
       /\ cacheLoaded[cacheKey].expires = "later"
       /\ cacheLoaded' = [cacheLoaded EXCEPT ![cacheKey].expires = "past"]
  /\ UNCHANGED <<cacheLoading, cacheLoaders, loads, lastCall, vDeploy>>

NextCache ==
  \/ GetCachedState
  \/ LoaderResolves
  \/ LoaderRejects
  \/ TimerFires
  \/ Expires

SpecCache == InitCache /\ [][NextCache]_vars

(***************************************************************************)
(* Properties.                                                             *)
(***************************************************************************)
\* addTarget returned for declaration i (with or without an action).
Completed(i) == tasks[i].pc \in {"done", "unchanged"}

\* The run was not refused, no target promise rejected, no hook threw, the
\* script did not throw and the push did not fail.
Faultless ==
  /\ caught = "none"
  /\ result \notin {"push", "locked", "unstaged", "read"}
  /\ \A i \in 1..Len(tasks) : tasks[i].error = "none" /\ tasks[i].settled # "rejected"

\* <<plugin, pos>> was killed by the kill loop n times.
KillCount(ref) ==
  Cardinality({n \in 1..Len(actionLog) :
                 /\ actionLog[n].hook = "kill"
                 /\ actionLog[n].decl = 0
                 /\ <<actionLog[n].plugin, actionLog[n].pos>> = ref})

\* The saved targets of the prior store, as <<plugin name, position>>.
SavedRefs ==
  UNION {{<<name, pos>> : pos \in 1..Len(targetCache[name])} : name \in DOMAIN targetCache}

\* C1: the handling of the k-th declared target begins only after the
\* handling of every earlier declaration has completed, and the provider
\* actions of the declared targets are called in declaration order,
\* whatever the order in which the targets' promises settle.
C1_DeclarationOrder ==
  /\ \A k \in 1..Len(tasks) :
       tasks[k].starts > 0 => \A j \in 1..(k - 1) : Completed(j)
  /\ \A m, n \in 1..Len(actionLog) :
       (m < n /\ actionLog[m].decl # 0 /\ actionLog[n].decl # 0)
         => actionLog[m].decl <= actionLog[n].decl

\* C1 witness: the second target's promise settled while the first one's
\* was pending, and the first target's action was still called first.
C1_Witness ==
  /\ Len(tasks) >= 2
  /\ tasks[2].overtook
  /\ tasks[1].settled = "resolved"
  /\ tasks[2].settled = "resolved"
  /\ Len(actionLog) >= 2
  /\ actionLog[1].decl = 1
  /\ actionLog[2].decl = 2

\* C2 (as claimed): in a non-dry run in which every completed action
\* returned a revert function and the N-th action threw, the revert
\* functions of the actions 1..N-1 have been called, each once, in the
\* order N-1, ..., 1, when deploy() settles.
C2_RollbackCompleteness ==
  (/\ phase = "done"
   /\ ~dryRun
   /\ caught \in {"spawn", "update", "kill"}
   /\ Len(revertFns) = Len(actionLog) - 1)
    => revertLog = [k \in 1..(Len(actionLog) - 1) |-> Len(actionLog) - k]

\* C3 (as claimed): when a revert function throws during rollback, every
\* remaining revert function of the stack is still called.
C3_RollbackBestEffort ==
  (phase = "done" /\ result = "revert" /\ caught # "script")
    => Len(revertLog) = Len(revertFns)

\* C4 (as claimed): a run that fails rejects with the original error, the
\* one the catch block caught.
C4_OriginalErrorReported ==
  (phase = "done" /\ caught # "none") => result = caught

\* C5 (as claimed): a dry run calls no spawn, update or kill hook.
C5_DryRunInvokesNoAction ==
  dryRun => actionLog = << >>

\* C6: a dry run never writes targets.yaml and never reaches the commit and
\* push; when it completes with at least one change it has written the new
\* target set to targets.debug.yaml.
C6_DryRunNeverWritesStore ==
  dryRun =>
    /\ storeWrites = 0
    /\ phase # "pushing"
    /\ (phase # "init" /\ result # "read") => targetsFile = targetCache
    /\ (/\ phase = "done"
        /\ caught = "none"
        /\ Len(killedTargets) + Len(updatedTargets) + Len(addedTargets) > 0)
         => debugWrites = 1 /\ debugFile = NewTargetCache(targets)

\* C6 witness: a dry run that completed after a kill and wrote the side file.
C6_Witness ==
  /\ dryRun
  /\ phase = "done"
  /\ debugWrites = 1
  /\ Len(killedTargets) >= 1
  /\ Len(targets) >= 1

\* C7: targets.yaml is written at most once per run, and only when dryRun
\* is off, the script has finished, every declared target has been applied
\* and every kill has completed, all without an error.
C7_StoreWrittenOnlyOnSuccess ==
  /\ storeWrites <= 1
  /\ storeWrites = 1 =>
       /\ ~dryRun
       /\ phase \in {"pushing", "done"}
       /\ deploying.state = "resolved"
       /\ Len(targets) = Len(script)
       /\ \A i \in 1..Len(tasks) : Completed(i) /\ tasks[i].error = "none"
       /\ killedTargets = getKillableTargets(reusedTargets)
       /\ \A ref \in SavedRefs : KillCount(ref) = IF ref \in reusedTargets THEN 0 ELSE 1
       /\ killIndex = Len(killedTargets)
       /\ caught = "none"
  /\ (caught # "none" \/ \E i \in 1..Len(tasks) : tasks[i].error # "none")
       => storeWrites = 0

\* C7 witness: a run that applied a target, killed a saved one and wrote
\* the store.
C7_Witness ==
  /\ storeWrites = 1
  /\ Len(tasks) >= 1
  /\ Len(killedTargets) >= 1
  /\ result = "ok"

\* The target of declaration i as addTarget sees it after plugin.pull.
Pulled(i) ==
  IF HasPull(script[i].hook)
  THEN ObjectAssign(script[i].target, pull(script[i].hook, script[i].target))
  ELSE script[i].target

\* Every declared target matches a saved one without a difference, and
\* every saved target is matched.
NoOpInput ==
  /\ script # << >>
  /\ \A i \in 1..Len(script) :
       LET plugin == script[i].hook
           target == IF HasPull(plugin)
                     THEN ObjectAssign(script[i].target, pull(plugin, script[i].target))
                     ELSE script[i].target
           saved == findSavedTarget(toObjectHash(identify(plugin, target)), plugin)
       IN  /\ plugin \in DOMAIN targetCache
           /\ saved # 0
           /\ ~diffObjects(targetCache[plugin][saved], target).differs
  /\ \A ref \in SavedRefs :
       \E i \in 1..Len(script) :
         /\ script[i].hook = ref[1]
         /\ SavedId(ref[1], ref[2]) = toObjectHash(identify(ref[1], Pulled(i)))

\* C8 (as claimed): a run in which nothing changed calls no hook and no
\* revert function, leaves targets.yaml unwritten and terminates
\* successfully: when nothing more can happen, deploy() has returned.
C8_NoOpRunTerminates ==
  (phase # "init" /\ NoOpInput /\ Faultless) =>
    /\ actionLog = << >>
    /\ revertLog = << >>
    /\ storeWrites = 0
    /\ ~ENABLED Next => (phase = "done" /\ result = "noop")

\* C9 (as claimed): the kill loop kills no saved target marked reused, and
\* it kills every other saved target exactly once: when nothing more can
\* happen in a run without a fault, each has been killed.
C9_KillDetection ==
  /\ \A ref \in SavedRefs : ref \in reusedTargets => KillCount(ref) = 0
  /\ \A ref \in SavedRefs : KillCount(ref) <= 1
  /\ (phase # "init" /\ script # << >> /\ Faultless /\ ~ENABLED Next) =>
       \A ref \in SavedRefs : ref \notin reusedTargets => KillCount(ref) = 1

\* C10 (as claimed): a second run on the store written by a successful
\* first run, with the same declarations, calls no spawn, update or kill.
C10_Idempotence ==
  run = 2 => actionLog = << >>

\* The saved record declaration i matches: its position in the provider's
\* saved targets, 0 for none (also when the provider has no entry).
Match(i) ==
  IF script[i].hook \notin DOMAIN targetCache THEN 0
  ELSE findSavedTarget(toObjectHash(identify(script[i].hook, Pulled(i))), script[i].hook)

\* What the prior store and declaration i call for.
Change(i) ==
  IF Match(i) = 0 THEN "spawn"
  ELSE IF ~diffObjects(targetCache[script[i].hook][Match(i)], Pulled(i)).differs THEN "none"
  ELSE IF HasUpdate(script[i].hook) THEN "update"
  ELSE "replace"

\* The provider actions declaration i calls for, in order.
ActionsOf(i) ==
  IF Change(i) = "spawn" THEN <<Action("spawn", script[i].hook, i, 0)>>
  ELSE IF Change(i) = "update" THEN <<Action("update", script[i].hook, i, 0)>>
  ELSE IF Change(i) = "replace"
  THEN <<Action("kill", script[i].hook, i, Match(i)), Action("spawn", script[i].hook, i, 0)>>
  ELSE << >>

RECURSIVE DeclaredActionsFrom(_)
DeclaredActionsFrom(i) ==
  IF i > Len(script) THEN << >> ELSE ActionsOf(i) \o DeclaredActionsFrom(i + 1)

\* The saved records some declaration of the script matches.
MatchedRefs == {<<script[i].hook, Match(i)>> : i \in {j \in 1..Len(script) : Match(j) # 0}}

\* The kills of the saved records no declaration matches, in store order.
KillActions ==
  LET killed == getKillableTargets(MatchedRefs)
  IN  [k \in 1..Len(killed) |-> Action("kill", killed[k][1], 0, killed[k][2])]

\* The one sequence of actions the prior store and the script call for.
ExpectedActions == DeclaredActionsFrom(1) \o KillActions

IsPrefix(seq, whole) ==
  Len(seq) <= Len(whole) /\ \A k \in 1..Len(seq) : seq[k] = whole[k]

\* Every declaration needs an action and its provider has a store entry.
EveryTargetChanges ==
  /\ script # << >>
  /\ \A i \in 1..Len(script) : script[i].hook \in DOMAIN targetCache /\ Change(i) # "none"

\* C11 (as claimed): the sequence of spawn/update/kill calls of a run is
\* fixed by the prior store and the declared targets alone: at any time
\* the calls made are a prefix of that one sequence, and a run without a
\* fault has made all of them when nothing more can happen, whatever the
\* order in which the promises settled and the script finished.
C11_Determinism ==
  (phase # "init" /\ Faultless /\ EveryTargetChanges) =>
    /\ IsPrefix(actionLog, ExpectedActions)
    /\ ~ENABLED Next => actionLog = ExpectedActions

\* C12 (as claimed): a run in which the script finishes without error and
\* every declared target is applied without error goes on to the kill
\* phase and terminates, whether the script or the queue finishes first
\* and also when nothing is declared: when nothing more can happen,
\* deploy() has settled, and not with an error.
C12_RunReachesKillPhase ==
  (phase # "init" /\ Faultless /\ ~ENABLED Next) =>
    /\ phase = "done"
    /\ result \in {"ok", "noop", "dry"}

\* A declared target's promise rejected, or a hook threw while a declared
\* target was applied.
TargetFailed ==
  \E i \in 1..Len(tasks) : tasks[i].error \in {"target", "hook", "spawn", "update", "kill"}

\* C13 (as claimed): when a declared target's promise rejects or a hook
\* throws while the target is applied, before or after the script has
\* finished, the run does not wait forever: when nothing more can happen,
\* deploy() has settled with a failure, and in a non-dry run every revert
\* function on the stack has been called.
C13_TargetFailureRollsBack ==
  (TargetFailed /\ ~ENABLED Next) =>
    /\ phase = "done"
    /\ result \notin {"ok", "noop", "dry", "none"}
    /\ (~dryRun /\ result # "revert") => Len(revertLog) = Len(revertFns)

\* C14: a non-dry run that finds deploy.lock present, or a dirty working
\* tree, throws the precondition error before anything else happens: no
\* declaration is taken, no hook and no revert function is called,
\* targets.yaml is neither read nor written, and deploy.lock is as it was
\* (peer = "running": it was present when the run began).  A non-dry run
\* that began with the lock present ends in no other way.
C14_PreconditionAbort ==
  /\ result \in {"unstaged", "locked"} =>
       /\ ~dryRun
       /\ phase = "done"
       /\ tasks = << >> /\ targets = << >>
       /\ actionLog = << >> /\ revertLog = << >>
       /\ targetCache = << >>
       /\ storeWrites = 0 /\ debugWrites = 0
       /\ lockfile = (peer = "running")
       /\ result = "locked" => lockfile
  /\ (~dryRun /\ peer = "running" /\ phase # "init") => result \in {"unstaged", "locked"}

\* C14 witness: a non-dry run was refused because of the lock, with a
\* non-empty store and a script that declares targets.
C14_Witness ==
  /\ result = "locked"
  /\ lockfile
  /\ targetsFile # << >>
  /\ script # << >>

\* C15 (as claimed): a run that created deploy.lock has removed it when
\* deploy() settles, on every exit path: success, the no-op return, a
\* failure followed by rollback, a failing revert function, and an
\* exception between the creation of the lock and the try block.
C15_LockRemovedOnEveryExit ==
  (phase = "done" /\ result \notin {"unstaged", "locked"}) => ~lockfile

\* C16 (as claimed): deploy.lock exists in every state of a non-dry run
\* from the creation of the lock until the new store has been written and
\* pushed, or the run has failed.
C16_LockHeldUntilPersisted ==
  (~dryRun /\ phase \in {"loading", "awaiting", "killing", "rollback", "pushing"}) => lockfile

\* This run is non-dry and between the creation of its lock and its end.
HoldsLock ==
  ~dryRun /\ phase \in {"loading", "awaiting", "killing", "rollback", "pushing"}

\* C17 (as claimed): of the runs of deploy() against one project, at most
\* one non-dry run is between creating the lock and finishing, and the lock
\* a running run created is not deleted by another run: while the peer
\* runs, this run does not hold the lock, and deploy.lock exists.
C17_MutualExclusion ==
  peer = "running" => (~HoldsLock /\ lockfile)

\* The number of calls of `hook` made for declaration i.
HookCount(i, hook) ==
  Cardinality({n \in 1..Len(actionLog) : actionLog[n].decl = i /\ actionLog[n].hook = hook})

\* C18 (as claimed): for a declared target that matches no saved record of
\* its provider, also when the provider has no entry in the store, neither
\* update nor kill is called and spawn is called at most once; and once
\* addTarget has returned, with no rejected target promise and no throwing
\* hook, spawn has been called exactly once for it.
C18_SpawnWhenNoPriorRecord ==
  \A i \in 1..Len(tasks) :
    (phase # "init" /\ Match(i) = 0) =>
      /\ HookCount(i, "update") = 0
      /\ HookCount(i, "kill") = 0
      /\ HookCount(i, "spawn") <= 1
      /\ (/\ tasks[i].pc \in {"done", "unchanged", "failed"}
          /\ tasks[i].error \notin {"target", "hook", "spawn"})
           => HookCount(i, "spawn") = 1

\* Action n of the history completes successfully in this step: the hook
\* call of a declared target returns, or a kill of the kill loop returns.
CompletesNow(n) ==
  \/ \E i \in 1..Len(tasks) :
       /\ tasks[i].pc = "hook"
       /\ tasks[i].action = n
       /\ tasks'[i].pc = "done" \/ tasks'[i].action # n
  \/ /\ phase = "killing"
     /\ n = LastKill
     /\ caught' = "none"
     /\ killIndex' = killIndex + 1 \/ phase' \in {"pushing", "done"}

\* C19 (as claimed): in a non-dry run, the step in which a spawn, update
\* or kill completes either pushes one revert function for it onto the
\* revert stack or emits a warning for it.
C19_RevertOrWarning ==
  [][~dryRun =>
       \A n \in 1..Len(actionLog) :
         CompletesNow(n) =>
           \/ revertFns' = Append(revertFns, n) /\ warnings' = warnings
           \/ /\ revertFns' = revertFns
              /\ Len(warnings') = Len(warnings) + 1
              /\ warnings'[Len(warnings')].action = n]_vars

\* C19 (amended): in a non-dry run, the step in which a spawn, update or
\* kill completes either pushes one revert function for it onto the revert
\* stack, or leaves the stack as it is with the warning that names the
\* action's plugin and kind emitted: in this step for this action, or
\* earlier for an action of the same plugin and kind.
C19_RevertOrWarningOnce ==
  [][~dryRun =>
       \A n \in 1..Len(actionLog) :
         CompletesNow(n) =>
           \/ revertFns' = Append(revertFns, n) /\ warnings' = warnings
           \/ /\ revertFns' = revertFns
              /\ \E k \in 1..Len(warnings') :
                   warnings'[k].message = Message(actionLog[n].plugin, actionLog[n].hook)
              /\ \/ warnings' = warnings
                 \/ warnings' = Append(warnings,
                        [message |-> Message(actionLog[n].plugin, actionLog[n].hook),
                         action |-> n])]_vars

\* C19 witness: a non-dry run completed two spawns of one plugin, neither
\* returned a revert function, and one warning was emitted, for the first.
C19_Witness ==
  /\ ~dryRun
  /\ Len(addedTargets) = 2
  /\ revertFns = << >>
  /\ caught = "none"
  /\ actionLog[1].plugin = actionLog[2].plugin
  /\ Len(warnings) = 1
  /\ warnings[1].action = 1

\* The resolved targets the script declares for a provider, in
\* declaration order.
DeclaredFor(name) ==
  LET mine == SelectSeq([i \in 1..Len(script) |-> i], LAMBDA i : script[i].hook = name)
  IN  [k \in 1..Len(mine) |-> Pulled(mine[k])]

\* C20 (as claimed): the store written by a successful non-dry run holds,
\* for each provider, exactly the resolved targets declared for it in this
\* run, in declaration order, unchanged ones included, and nothing else.
C20_StoreHoldsDeclaredTargets ==
  storeWrites = 1 =>
    /\ DOMAIN targetsFile = {script[i].hook : i \in 1..Len(script)}
    /\ \A name \in DOMAIN targetsFile : targetsFile[name] = DeclaredFor(name)

\* C21: for two structurally equal values (the same fields with equal
\* values at every depth, in whatever order the keys were written), the
\* diff returns false.
C21_DiffCompleteness ==
  (phase = "diffed" /\ oldValues = values) => ~differs

\* C21 witness: the diff was applied to two equal values that hold a
\* nested object or array with at least one element.
C21_Witness ==
  /\ phase = "diffed"
  /\ oldValues = values
  /\ "a" \in Keys(values)
  /\ Keys(Get(values, "a")) # {}
  /\ "b" \in Keys(values)

RECURSIVE DiffersInOneLeaf(_, _), PathToLeaf(_, _)

\* The two values have the same shape and differ in exactly one leaf.
DiffersInOneLeaf(old, new) ==
  IF isPlainObject(old) /\ isPlainObject(new)
  THEN /\ old.t = new.t
       /\ Keys(old) = Keys(new)
       /\ \E key \in Keys(new) :
            /\ DiffersInOneLeaf(Get(old, key), Get(new, key))
            /\ \A other \in Keys(new) \ {key} : Get(old, other) = Get(new, other)
  ELSE ~isPlainObject(old) /\ ~isPlainObject(new) /\ old # new

\* The change set that holds the path to the one differing leaf only:
\* nested mappings down to the leaf, which is marked true.
PathToLeaf(old, new) ==
  [key \in {k \in Keys(new) : Get(old, k) # Get(new, k)} |->
     IF isPlainObject(Get(new, key))
     THEN Obj(PathToLeaf(Get(old, key), Get(new, key)))
     ELSE True]

\* C22 (as claimed): for two values that differ in exactly one nested
\* leaf, the change set holds the path to that leaf and nothing else, no
\* entry for an unchanged field.
C22_ChangeSetIsThePath ==
  (phase = "diffed" /\ DiffersInOneLeaf(oldValues, values)) =>
    changed = PathToLeaf(oldValues, values)

\* C23 (as claimed): the diff returns false only if the two values match
\* in every field at every depth; a key on one side only, arrays of
\* different length, an array against an object and unequal scalars each
\* make it return true.
C23_DiffSoundness ==
  (phase = "diffed" /\ ~differs) => oldValues = values

\* The kill phase has begun: getKillableTargets was called (every path
\* from there leads to one of these phases, results or history entries).
KillPhaseBegun ==
  \/ phase \in {"killing", "pushing"}
  \/ result \in {"ok", "noop", "dry", "push"}
  \/ killedTargets # << >>
  \/ \E n \in 1..Len(actionLog) : actionLog[n].decl = 0

\* C24: the kill phase does not begin before the deploy script has
\* finished and every declared target has been applied: the killable
\* records are computed, and a kill of the kill loop is called, only after
\* loadDeployFile resolved, with every declaration made, every addTarget
\* returned without an error and no hook call in flight.
C24_KillPhaseNotEarly ==
  KillPhaseBegun =>
    /\ Len(targets) = Len(script)
    /\ Len(tasks) = Len(script)
    /\ deploying.state = "resolved"
    /\ targetIndex = Len(targets)
    /\ \A i \in 1..Len(tasks) : Completed(i) /\ tasks[i].error = "none"

\* C24 witness: a kill of the kill loop is in flight after two declared
\* targets were applied, the second of which settled its promise first.
C24_Witness ==
  /\ phase = "killing"
  /\ Len(tasks) = 2
  /\ tasks[2].overtook
  /\ Len(actionLog) >= 3
  /\ actionLog[Len(actionLog)].decl = 0

\* A plugin hook has thrown: pull, identify, spawn, update or kill for a
\* declared target, or a kill of the kill loop.
HookThrew ==
  \/ \E i \in 1..Len(tasks) : tasks[i].error \in {"hook", "spawn", "update", "kill"}
  \/ caught = "kill"

\* C25: once a plugin hook has thrown, no step calls a further spawn,
\* update or kill, dispatches a declaration (those declared later stay
\* parked), or computes the killable records; the kill phase is not
\* entered and the store is not written.
C25_AbortAfterHookThrows ==
  [][HookThrew =>
       /\ actionLog' = actionLog
       /\ \A i \in 1..Len(tasks) : tasks'[i].starts = tasks[i].starts
       /\ \A i \in (Len(tasks) + 1)..Len(tasks') : tasks'[i].starts = 0
       /\ killedTargets' = killedTargets
       /\ phase' \notin {"killing", "pushing"}
       /\ storeWrites' = storeWrites]_vars

\* C25 witness: the spawn of the first target threw after its kill had
\* returned a revert function; the second declaration is still parked and
\* the revert function has been called.
C25_Witness ==
  /\ Len(tasks) = 2
  /\ tasks[1].error = "spawn"
  /\ tasks[2].pc = "parked"
  /\ tasks[2].starts = 0
  /\ phase = "done"
  /\ revertLog = <<1>>
  /\ Len(actionLog) = 2

\* C26: revert functions are called during rollback only: none is called
\* unless the catch block caught an error, and none in a run that went
\* through the declarations and the kill loop without an error, also
\* when the push of the written store fails afterwards.
C26_RevertsOnlyInRollback ==
  /\ revertLog # << >> => (caught # "none" /\ phase \in {"rollback", "done"})
  /\ (phase = "pushing" \/ result \in {"ok", "noop", "dry", "push"} \/ storeWrites = 1)
       => revertLog = << >>

\* C26 witness: the push failed after a run that collected a revert
\* function, and no revert function was called.
C26_Witness ==
  /\ result = "push"
  /\ revertFns # << >>
  /\ revertLog = << >>
  /\ storeWrites = 1

\* C27 (as claimed): in a dry run a failure never triggers rollback: no
\* revert function is called, and the run rejects with the original error.
C27_DryRunFailure ==
  dryRun =>
    /\ revertLog = << >>
    /\ phase # "rollback"
    /\ (phase = "done" /\ caught # "none") => result = caught

\* The spawn/update/kill calls made for declaration i, in order.
DeclActions(i) == SelectSeq(actionLog, LAMBDA a : a.decl = i)

\* How often declaration i occurs in a list of declarations.
Occurrences(list, i) == Cardinality({k \in 1..Len(list) : list[k] = i})

\* C28: for a declared target that matches a saved record with a
\* difference, a provider without an update hook gets kill(saved record)
\* and then spawn(target), a provider with one gets update only; when
\* addTarget has returned the calls are complete and the target is counted
\* once, as updated; revert functions are pushed in the order of the calls
\* (the stack is in call order until the catch block reverses it).
C28_UpdateOrKillThenSpawn ==
  /\ \A i \in 1..Len(tasks) :
       (tasks[i].saved # 0 /\ tasks[i].pc \in {"hook", "done", "failed"}) =>
         LET plugin == targets[i].hook
             calls == IF HasUpdate(plugin)
                      THEN <<Action("update", plugin, i, 0)>>
                      ELSE <<Action("kill", plugin, i, tasks[i].saved),
                             Action("spawn", plugin, i, 0)>>
         IN  /\ DeclActions(i) # << >>
             /\ IsPrefix(DeclActions(i), calls)
             /\ tasks[i].pc = "done" =>
                  /\ DeclActions(i) = calls
                  /\ Occurrences(updatedTargets, i) = 1
                  /\ Occurrences(addedTargets, i) = 0
             /\ tasks[i].pc # "done" => Occurrences(updatedTargets, i) = 0
  /\ caught = "none" =>
       \A k \in 1..(Len(revertFns) - 1) : revertFns[k] < revertFns[k + 1]

\* C28 witness: a target of the provider without update hook was replaced;
\* kill and spawn each returned a revert function.
C28_Witness ==
  /\ Len(tasks) >= 1
  /\ tasks[1].pc = "done"
  /\ ~HasUpdate(targets[1].hook)
  /\ tasks[1].saved # 0
  /\ revertFns = <<1, 2>>
  /\ updatedTargets = <<1>>

\* C29: a declared target whose saved record shows no difference is
\* skipped: no spawn, update or kill is called for it, no revert function
\* is pushed for it, it is in neither addedTargets nor updatedTargets,
\* and its saved record is in reusedTargets and is not killed.
C29_UnchangedTargetSkipped ==
  \A i \in 1..Len(tasks) :
    tasks[i].pc = "unchanged" =>
      /\ tasks[i].saved # 0
      /\ DeclActions(i) = << >>
      /\ \A k \in 1..Len(revertFns) : actionLog[revertFns[k]].decl # i
      /\ Occurrences(addedTargets, i) = 0
      /\ Occurrences(updatedTargets, i) = 0
      /\ <<targets[i].hook, tasks[i].saved>> \in reusedTargets
      /\ KillCount(<<targets[i].hook, tasks[i].saved>>) = 0

\* C29 witness: after a first target was spawned and returned a revert
\* function, the second target was found unchanged.
C29_Witness ==
  /\ Len(tasks) = 2
  /\ tasks[1].pc = "done"
  /\ tasks[2].pc = "unchanged"
  /\ revertFns = <<1>>
  /\ Len(actionLog) = 1

\* C30: the secrets and the plugins are loaded once per run, by the first
\* declaration only, and no declared target is handled before that load
\* has completed: while it is in progress no addTarget has started and no
\* hook has been called, also for the targets declared in the meantime.
C30_SetupOnceBeforeTargets ==
  /\ loaded <= 1
  /\ \A i \in 2..Len(tasks) : tasks[i].pc # "setup"
  /\ \A i \in 1..Len(tasks) :
       (tasks[i].starts > 0 \/ tasks[i].pc \notin {"setup", "parked"}) => loaded = 1
  /\ loaded = 0 => actionLog = << >>
  /\ (Len(tasks) >= 1 /\ tasks[1].pc # "setup") => loaded = 1

\* C30 witness: the second target was declared while the first declaration
\* was still loading the secrets and plugins; neither has been handled.
C30_Witness ==
  /\ Len(tasks) = 2
  /\ tasks[1].pc = "setup"
  /\ tasks[2].pc = "parked"
  /\ tasks[2].settled = "resolved"
  /\ loaded = 0
  /\ actionLog = << >>

\* The providers whose hook call, or whose declared target, raised the
\* error e: the provider of each declaration whose addTarget caught e, and
\* the provider of the kill of the kill loop that threw.
FailingPlugins(e) ==
  {targets[i].hook : i \in {j \in 1..Len(tasks) : tasks[j].error = e}}
    \cup (IF e = "kill" /\ killIndex > 0 THEN {killedTargets[killIndex][1]} ELSE {})

\* C31 (as claimed): on every failure the catch block of deploy() handles,
\* the active plugin it reports is the provider whose hook call or whose
\* declared target raised the error.
C31_ActivePluginIsTheFailingOne ==
  caught # "none" => activePlugin \in FailingPlugins(caught)

\* C32: for a declared target that got as far as the diff, the fields
\* plugin.pull returned were written over the declared ones before the
\* identity was computed, before the saved record was looked up and
\* before the diff: the identity, the matched record, the change set and
\* the target handed to spawn/update are those of the pulled target, and
\* an action is called exactly when that target differs from the record.
C32_PullBeforeIdentifyAndDiff ==
  \A i \in 1..Len(tasks) :
    tasks[i].pc \in {"hook", "done", "unchanged"} =>
      LET plugin == script[i].hook
          record == targetCache[plugin][Match(i)]
      IN  /\ tasks[i].target = Pulled(i)
          /\ HasPull(plugin) =>
               \A key \in Keys(pull(plugin, script[i].target)) :
                 Get(tasks[i].target, key) = Get(pull(plugin, script[i].target), key)
          /\ tasks[i].id = toObjectHash(identify(plugin, Pulled(i)))
          /\ tasks[i].saved = Match(i)
          /\ Match(i) = 0 => tasks[i].changed = Undefined
          /\ Match(i) # 0 =>
               /\ tasks[i].changed = Obj(diffObjects(record, Pulled(i)).changed)
               /\ (tasks[i].pc = "unchanged") = ~diffObjects(record, Pulled(i)).differs
          /\ tasks[i].pc # "unchanged" => DeclActions(i) # << >>

\* C32 witness: the update hook was called for a target whose identity
\* holds a pulled field; the change set names the one declared field that
\* differs from the saved record and not the pulled one.
C32_Witness ==
  /\ Len(tasks) >= 1
  /\ tasks[1].pc = "hook"
  /\ tasks[1].hook = "update"
  /\ Get(script[1].target, "live") = Undefined
  /\ Get(tasks[1].target, "live") = Prim("on")
  /\ tasks[1].id = toObjectHash(Obj([name |-> Prim("x"), live |-> Prim("on")]))
  /\ tasks[1].changed = Obj([size |-> True])

\* addTarget for declaration i has looked up the saved record.
LookedUp(i) == tasks[i].pc \in {"hook", "done", "unchanged"}

\* C33: within one provider one saved record is matched per identity.
\* Two declared targets with the same identity match the same record, the
\* first with that identity in the provider's saved list; a later record
\* with that identity is never marked reused and is among the killable
\* records once they are computed; and the calls made for the target
\* declared later all follow the calls made for the one declared earlier.
C33_OneRecordPerIdentity ==
  /\ \A i \in 1..Len(tasks) :
       (LookedUp(i) /\ tasks[i].saved # 0) =>
         LET plugin == targets[i].hook
             saved == tasks[i].saved
         IN  /\ SavedId(plugin, saved) = tasks[i].id
             /\ \A pos \in 1..Len(targetCache[plugin]) :
                  SavedId(plugin, pos) = tasks[i].id =>
                    /\ pos >= saved
                    /\ pos # saved => <<plugin, pos>> \notin reusedTargets
                    /\ (pos # saved /\ KillPhaseBegun) =>
                         \E k \in 1..Len(killedTargets) : killedTargets[k] = <<plugin, pos>>
  /\ \A i, j \in 1..Len(tasks) :
       (/\ i < j
        /\ LookedUp(i) /\ LookedUp(j)
        /\ targets[i].hook = targets[j].hook
        /\ tasks[i].id = tasks[j].id) =>
         /\ tasks[i].saved = tasks[j].saved
         /\ \A m, n \in 1..Len(actionLog) :
              (actionLog[m].decl = i /\ actionLog[n].decl = j) => m < n

\* C33 witness: two targets declared for one provider had the same
\* identity and both were applied against the first of two saved records
\* with that identity; the kill loop is killing the second record.
C33_Witness ==
  /\ Len(tasks) = 2
  /\ tasks[1].pc = "done" /\ tasks[2].pc = "done"
  /\ targets[1].hook = targets[2].hook
  /\ tasks[1].id = tasks[2].id
  /\ tasks[1].saved = 1 /\ tasks[2].saved = 1
  /\ Len(targetCache[targets[1].hook]) = 2
  /\ SavedId(targets[1].hook, 2) = tasks[1].id
  /\ phase = "killing"
  /\ killedTargets = << <<targets[1].hook, 2>> >>

\* The spawn/update/kill calls that have not settled, as numbers of
\* entries of the history: the hook call an addTarget is waiting for, and
\* the kill the kill loop is waiting for.
InFlight ==
  {tasks[i].action : i \in {j \in 1..Len(tasks) : tasks[j].pc = "hook"}}
    \cup (IF phase = "killing" THEN {LastKill} ELSE {})

\* C34: at most one spawn, update or kill is in flight at any time, in
\* the apply phase, in the kill phase and across providers: a call that
\* has not settled is the last one that was started.
C34_OneActionInFlight ==
  /\ Cardinality(InFlight) <= 1
  /\ InFlight \subseteq {Len(actionLog)}
  /\ Cardinality({i \in 1..Len(tasks) : tasks[i].pc = "hook"}) <= 1
  /\ phase = "killing" => \A i \in 1..Len(tasks) : tasks[i].pc # "hook"

\* C34 witness: a kill of the kill loop is in flight after a target of
\* another provider was applied, whose promise had settled after that of
\* a target declared later.
C34_Witness ==
  /\ phase = "killing"
  /\ InFlight = {Len(actionLog)}
  /\ Len(actionLog) >= 3
  /\ actionLog[1].plugin # actionLog[Len(actionLog)].plugin
  /\ Len(tasks) = 2
  /\ tasks[2].overtook

\* C35: when the kill phase begins every declaration of the script has
\* been handled by addTarget exactly once: each was buffered, dispatched
\* once and has returned; and in no state was a declaration dispatched
\* twice, however declarations, the setup, promise settlements and hook
\* completions interleave.
C35_EveryDeclarationHandledOnce ==
  /\ \A i \in 1..Len(tasks) : tasks[i].starts <= 1
  /\ KillPhaseBegun =>
       /\ Len(tasks) = Len(script)
       /\ \A i \in 1..Len(tasks) :
            /\ tasks[i].starts = 1
            /\ Completed(i)
            /\ tasks[i].index = i - 1

\* C35 witness: the kill phase began after two declarations, the second
\* of which had waited in the buffer (its promise settled while the first
\* target's was still pending) until the cursor reached it.
C35_Witness ==
  /\ KillPhaseBegun
  /\ Len(tasks) = 2
  /\ tasks[2].overtook
  /\ tasks[1].starts = 1 /\ tasks[2].starts = 1
  /\ tasks[2].index = 1

\* C38: in every state 0 <= targetIndex <= targets.length; no step
\* decreases the cursor, and a step that changes it advances it by one and
\* is the step in which the last hook call of the declaration at the
\* cursor returns without an error.
C38_CursorInvariant ==
  /\ [](0 <= targetIndex /\ targetIndex <= Len(targets))
  /\ [][\/ targetIndex' = targetIndex
        \/ /\ targetIndex' = targetIndex + 1
           /\ targetIndex < Len(tasks)
           /\ LET i == targetIndex + 1
              IN  /\ tasks[i].index = targetIndex
                  /\ tasks[i].pc = "hook"
                  /\ tasks'[i].pc = "done"
                  /\ tasks'[i].error = "none"
                  /\ tasks'[i].returned = "target"]_vars

\* C38 witness: the cursor advanced past the first declaration, whose
\* action completed, and stays on the second, whose hook threw.
C38_Witness ==
  /\ Len(targets) = 2
  /\ targetIndex = 1
  /\ tasks[1].pc = "done"
  /\ tasks[2].pc = "failed"
  /\ tasks[2].error \in {"spawn", "update", "kill"}

\* The loader invocations for a key whose promise has not settled.
RunningLoads(cacheKey) ==
  {n \in 1..Len(loads) : loads[n].key = cacheKey /\ loads[n].status = "running"}

\* The last getCachedState call found a promise in cache.loading for its
\* key, returned that promise and invoked no loader.
JoinsInFlight ==
  lastCall.oldPromise # 0 =>
    /\ lastCall.returned = "promise"
    /\ lastCall.value = lastCall.oldPromise
    /\ ~lastCall.invoked

SettlesNow(n) == loads[n].status = "running" /\ loads'[n].status # "running"

====
